---- MODULE Spec2Model ----
(***************************************************************************)
(* vcsgrep: the argument classifier (ArgParser) and the glob compiler      *)
(* (glob_to_grep_pattern) of vcsgrep.py.                                   *)
(*                                                                         *)
(* A Python string is modelled as a sequence of one-character strings, so  *)
(* that indexing, slicing, prefix tests and concatenation are computed,    *)
(* not assumed: '--vim' is <<"-","-","v","i","m">>.                         *)
(***************************************************************************)
EXTENDS Integers, Sequences, FiniteSets, TLC

\* ------------------------------------------------------------------ bounds

\* longest argument vector handed to ArgParser
MaxArgs == 3

\* longest glob handed to glob_to_grep_pattern
MaxGlobLen == 4

\* ----------------------------------------------------------- string helpers

Range(s) == {s[k] : k \in DOMAIN s}

\* str.startswith
StartsWith(s, p) == Len(s) >= Len(p) /\ SubSeq(s, 1, Len(p)) = p

\* s[n:] (a slice never raises)
SliceFrom(s, n) == SubSeq(s, n + 1, Len(s))

RECURSIVE LStrip(_, _)
\* str.lstrip(c)
LStrip(s, c) == IF s # <<>> /\ Head(s) = c THEN LStrip(Tail(s), c) ELSE s

RECURSIVE RStrip(_, _)
\* str.rstrip(c)
RStrip(s, c) ==
    IF s # <<>> /\ s[Len(s)] = c THEN RStrip(SubSeq(s, 1, Len(s) - 1), c) ELSE s

RECURSIVE Join(_, _)
\* sep.join(list)
Join(list, sep) ==
    IF list = <<>> THEN <<>>
    ELSE IF Len(list) = 1 THEN list[1]
    ELSE list[1] \o sep \o Join(Tail(list), sep)

\* ------------------------------------------------- module-level constants

editor_flags == << <<"-","-","v","i","m">>, <<"-","-","g","v","i","m">> >>

grep_default_matcher == <<"-","E">>

grep_flags_matcher_select == <<"E","F","G","P">>

grep_flags_suppress_implicit_pattern_arg == <<"e","f">>

grep_flags_with_argument == <<"e","f","m","A","B","C","d","D">>

\* line 22: version (the module-level string, not the switch of ArgParser)
vcsgrep_version == "0.9"

\* line 24
editors_that_need_stdin == << <<"v","i","m">> >>

\* the tuple tested at line 221
tool_switches ==
    { <<"-","-","e","x","p","l","a","i","n">>, <<"-","-","h","e","l","p">>,
      <<"-","-","s","h","o","w">>, <<"-","-","v","e","r","s","i","o","n">> }

\* the initial value of grep_color_arg
default_color_arg == <<"-","-","c","o","l","o","r">>

\* Python's None, for a field that otherwise holds a string
None == <<"None">>

\* the values of next_arg_processor
NoProcessor == "None"
ExcludeAppend == "exclude_globs.append"
RevisionsAppend == "revisions.append"
GrepArgsAppend == "grep_args.append"

\* --------------------------------------------------- the argument alphabet

T_vim == <<"-","-","v","i","m">>
T_gvim == <<"-","-","g","v","i","m">>
T_explain == <<"-","-","e","x","p","l","a","i","n">>
T_help == <<"-","-","h","e","l","p">>
T_show == <<"-","-","s","h","o","w">>
T_version == <<"-","-","v","e","r","s","i","o","n">>
T_X == <<"-","X">>
T_color == <<"-","-","c","o","l","o","r">>
T_colorEq == <<"-","-","c","o","l","o","r","=","a">>
T_rev == <<"-","-","r","e","v">>
T_r == <<"-","r">>
T_rR == <<"-","r","R">>
T_revEq == <<"-","-","r","e","v","=","R">>
T_G == <<"-","G">>
T_GV == <<"-","G","V">>
T_e == <<"-","e">>
T_Ff == <<"-","F","f">>
T_Ffp == <<"-","F","f","p">>
T_eGV == <<"-","e","G","V">>
T_long == <<"-","-","f","o","o">>
T_ddash == <<"-","-">>
T_dash == <<"-">>
T_empty == <<>>
T_pat == <<"p">>
T_dot_h == <<".","h">>
T_dot_c == <<".","c">>
T_dir == <<"s","/">>

T_h == <<"-","h">>
T_unclosed == <<"{">>

\* the tokens argument vectors are built from
Tokens ==
    { T_vim, T_gvim, T_explain, T_help, T_show, T_version, T_X, T_color,
      T_colorEq, T_rev, T_r, T_rR, T_revEq, T_G, T_GV, T_e, T_Ff, T_Ffp,
      T_eGV, T_long, T_ddash, T_dash, T_empty, T_pat, T_dot_h, T_dot_c, T_dir }

\* the tokens the vectors handed to the script are built from
DriverTokens ==
    { T_vim, T_gvim, T_explain, T_help, T_show, T_version, T_X, T_colorEq,
      T_r, T_GV, T_h, T_pat, T_dot_h, T_dir, T_unclosed }

\* the names the script is invoked under: sys.argv[0] ends in 'hgg', in
\* 'ggit', or in neither
ProgNames == {"hgg", "ggit", "vcsgrep.py"}

\* ------------------------------------------------------------------- state

VARIABLES
    args,                           \* the tokens of the vector consumed so far
    pc,                             \* "parse", "parsed", "raised" ("idle" in GlobSpec)
    explain, help, show, version,   \* the boolean switches
    include_globs, exclude_globs, grep_args, editor, grep_color_arg, revisions,
    extension_globs, use_default_matcher, next_arg_processor,
    awaiting_implicit_pattern_arg,
    glob,                           \* the argument of glob_to_grep_pattern
    gpc,                            \* "call", "walk", "returned", "raised" ("idle" in Spec)
    glob2, pieces, i, brace_depth, result,
    ret,                            \* the value returned
    err,                            \* the ValueError raised
    prog,                           \* 'hgg', 'ggit', or the name that is neither
    dpc,                            \* the block of __main__ to run next ("idle" in Spec)
    cmd,                            \* the pipeline assembled so far, stage by stage
    stdout, stderr,                 \* the lines written
    status,                         \* the exit status, "running" until the exit
    executed                        \* the shell commands started

parserVars ==
    << args, pc, explain, help, show, version, include_globs, exclude_globs,
       grep_args, editor, grep_color_arg, revisions, extension_globs,
       use_default_matcher, next_arg_processor, awaiting_implicit_pattern_arg >>

globVars == << glob, gpc, glob2, pieces, i, brace_depth, result, ret, err >>

driverVars == << prog, dpc, cmd, stdout, stderr, status, executed >>

vars == << parserVars, globVars, driverVars >>

\* ArgParser.__init__, lines 198-213
ParserInit ==
    /\ args = <<>>
    /\ pc = "parse"
    /\ explain = FALSE
    /\ help = FALSE
    /\ show = FALSE
    /\ version = FALSE
    /\ include_globs = <<>>
    /\ exclude_globs = <<>>
    /\ grep_args = <<>>
    /\ editor = None
    /\ grep_color_arg = default_color_arg
    /\ revisions = <<>>
    /\ extension_globs = <<>>
    /\ use_default_matcher = TRUE
    /\ next_arg_processor = NoProcessor
    /\ awaiting_implicit_pattern_arg = TRUE

\* no call of glob_to_grep_pattern is in progress
GlobIdle ==
    /\ glob = <<>>
    /\ gpc = "idle"
    /\ glob2 = <<>>
    /\ pieces = <<>>
    /\ i = 0
    /\ brace_depth = 0
    /\ result = <<>>
    /\ ret = None
    /\ err = None

\* the script __main__ is not running
DriverIdle ==
    /\ prog = "none"
    /\ dpc = "idle"
    /\ cmd = <<>>
    /\ stdout = <<>>
    /\ stderr = <<>>
    /\ status = "running"
    /\ executed = <<>>

Init == ParserInit /\ GlobIdle /\ DriverIdle

\* ------------------------------------------- ArgParser.__init__: the tests

\* line 219: arg in editor_flags
IsEditorFlag(arg) == arg \in Range(editor_flags)

\* line 221: arg in ('--explain', '--help', '--show', '--version')
IsToolSwitch(arg) == arg \in tool_switches

\* line 223: arg == '-X'
IsExcludeFlag(arg) == arg = <<"-","X">>

\* line 225: arg == '--color' or arg.startswith('--color=')
IsColorFlag(arg) ==
    \/ arg = <<"-","-","c","o","l","o","r">>
    \/ StartsWith(arg, <<"-","-","c","o","l","o","r","=">>)

\* line 227: arg == '--rev' or arg.startswith('-r')
IsRevFlag(arg) == arg = <<"-","-","r","e","v">> \/ StartsWith(arg, <<"-","r">>)

\* line 228: arg in ('--rev', '-r')
IsBareRevFlag(arg) == arg \in { <<"-","-","r","e","v">>, <<"-","r">> }

\* line 232, with the off-by-one length test a slip would write
LooksLikeFlag_ShortLen(arg) == Len(arg) >= 1 /\ arg[1] = "-"

\* line 232: len(arg) >= 2 and arg[0] == '-'
LooksLikeFlag(arg) == Len(arg) >= 2 /\ arg[1] = "-"

\* line 256: arg.startswith('.') and '/' not in arg
IsExtension(arg) == StartsWith(arg, <<".">>) /\ "/" \notin Range(arg)

\* the if/elif chain of lines 216-259: the first test that holds wins
Branch(arg) ==
    IF next_arg_processor # NoProcessor THEN "continuation"
    ELSE IF IsEditorFlag(arg) THEN "editor"
    ELSE IF IsToolSwitch(arg) THEN "switch"
    ELSE IF IsExcludeFlag(arg) THEN "exclude"
    ELSE IF IsColorFlag(arg) THEN "color"
    ELSE IF IsRevFlag(arg) THEN "rev"
    ELSE IF LooksLikeFlag(arg) THEN "flag"
    ELSE IF awaiting_implicit_pattern_arg THEN "pattern"
    ELSE IF IsExtension(arg) THEN "extension"
    ELSE "include"

\* the loop takes one more token of a vector of at most MaxArgs tokens
Takes(arg, branch) ==
    /\ pc = "parse"
    /\ Len(args) < MaxArgs
    /\ Branch(arg) = branch
    /\ args' = Append(args, arg)
    /\ UNCHANGED << globVars, driverVars >>

\* ------------------------------------------ ArgParser.__init__: the branches

\* lines 216-218 with line 218 forgotten: the continuation stays pending
Continuation_StillPending(arg) ==
    /\ Takes(arg, "continuation")
    /\ exclude_globs' =
         IF next_arg_processor = ExcludeAppend
         THEN Append(exclude_globs, arg) ELSE exclude_globs
    /\ revisions' =
         IF next_arg_processor = RevisionsAppend
         THEN Append(revisions, arg) ELSE revisions
    /\ grep_args' =
         IF next_arg_processor = GrepArgsAppend
         THEN Append(grep_args, arg) ELSE grep_args
    /\ UNCHANGED << pc, explain, help, show, version, include_globs, editor,
                    grep_color_arg, extension_globs, use_default_matcher,
                    next_arg_processor, awaiting_implicit_pattern_arg >>

\* lines 216-218: the pending continuation consumes the token
Continuation(arg) ==
    /\ Takes(arg, "continuation")
    /\ exclude_globs' =
         IF next_arg_processor = ExcludeAppend
         THEN Append(exclude_globs, arg) ELSE exclude_globs
    /\ revisions' =
         IF next_arg_processor = RevisionsAppend
         THEN Append(revisions, arg) ELSE revisions
    /\ grep_args' =
         IF next_arg_processor = GrepArgsAppend
         THEN Append(grep_args, arg) ELSE grep_args
    /\ next_arg_processor' = NoProcessor
    /\ UNCHANGED << pc, explain, help, show, version, include_globs, editor,
                    grep_color_arg, extension_globs, use_default_matcher,
                    awaiting_implicit_pattern_arg >>

\* lines 219-220
EditorFlag(arg) ==
    /\ Takes(arg, "editor")
    /\ editor' = LStrip(arg, "-")
    /\ UNCHANGED << pc, explain, help, show, version, include_globs,
                    exclude_globs, grep_args, grep_color_arg, revisions,
                    extension_globs, use_default_matcher, next_arg_processor,
                    awaiting_implicit_pattern_arg >>

\* lines 221-222: setattr(self, arg[2:], True)
ToolSwitch(arg) ==
    /\ Takes(arg, "switch")
    /\ explain' = (explain \/ SliceFrom(arg, 2) = <<"e","x","p","l","a","i","n">>)
    /\ help' = (help \/ SliceFrom(arg, 2) = <<"h","e","l","p">>)
    /\ show' = (show \/ SliceFrom(arg, 2) = <<"s","h","o","w">>)
    /\ version' = (version \/ SliceFrom(arg, 2) = <<"v","e","r","s","i","o","n">>)
    /\ UNCHANGED << pc, include_globs, exclude_globs, grep_args, editor,
                    grep_color_arg, revisions, extension_globs,
                    use_default_matcher, next_arg_processor,
                    awaiting_implicit_pattern_arg >>

\* lines 223-224
ExcludeFlag(arg) ==
    /\ Takes(arg, "exclude")
    /\ next_arg_processor' = ExcludeAppend
    /\ UNCHANGED << pc, explain, help, show, version, include_globs,
                    exclude_globs, grep_args, editor, grep_color_arg, revisions,
                    extension_globs, use_default_matcher,
                    awaiting_implicit_pattern_arg >>

\* lines 225-226
ColorFlag(arg) ==
    /\ Takes(arg, "color")
    /\ grep_color_arg' = arg
    /\ UNCHANGED << pc, explain, help, show, version, include_globs,
                    exclude_globs, grep_args, editor, revisions,
                    extension_globs, use_default_matcher, next_arg_processor,
                    awaiting_implicit_pattern_arg >>

\* lines 227-231 with insert(0, ...) in place of append at line 231
RevFlag_Prepended(arg) ==
    /\ Takes(arg, "rev")
    /\ IF IsBareRevFlag(arg)
       THEN /\ next_arg_processor' = RevisionsAppend
            /\ revisions' = revisions
       ELSE /\ revisions' = << SliceFrom(arg, 2) >> \o revisions
            /\ next_arg_processor' = next_arg_processor
    /\ UNCHANGED << pc, explain, help, show, version, include_globs,
                    exclude_globs, grep_args, editor, grep_color_arg,
                    extension_globs, use_default_matcher,
                    awaiting_implicit_pattern_arg >>

\* lines 227-231
RevFlag(arg) ==
    /\ Takes(arg, "rev")
    /\ IF IsBareRevFlag(arg)
       THEN /\ next_arg_processor' = RevisionsAppend
            /\ revisions' = revisions
       ELSE /\ revisions' = Append(revisions, SliceFrom(arg, 2))
            /\ next_arg_processor' = next_arg_processor
    /\ UNCHANGED << pc, explain, help, show, version, include_globs,
                    exclude_globs, grep_args, editor, grep_color_arg,
                    extension_globs, use_default_matcher,
                    awaiting_implicit_pattern_arg >>

\* the loop state the scan of lines 237-251 works on
ScanState ==
    [ version |-> version,
      awaiting |-> awaiting_implicit_pattern_arg,
      use_default |-> use_default_matcher,
      next |-> next_arg_processor ]

RECURSIVE ScanFlags_NoBreak(_, _, _)
\* lines 237-251 with the break of line 251 forgotten: the characters after an
\* argument-taking flag are scanned as flags too
ScanFlags_NoBreak(arg, idx, st) ==
    IF idx >= Len(arg) THEN st
    ELSE LET c == arg[idx + 1]
             st1 == IF c \in Range(grep_flags_suppress_implicit_pattern_arg)
                    THEN [st EXCEPT !.awaiting = FALSE]
                    ELSE IF c \in Range(grep_flags_matcher_select)
                    THEN [st EXCEPT !.use_default = FALSE]
                    ELSE st
         IN  IF c = "V"
             THEN ScanFlags_NoBreak(arg, idx + 1, [st EXCEPT !.version = TRUE])
             ELSE IF c \in Range(grep_flags_with_argument) /\ idx = Len(arg) - 1
             THEN [st1 EXCEPT !.next = GrepArgsAppend]
             ELSE ScanFlags_NoBreak(arg, idx + 1, st1)

RECURSIVE ScanFlags(_, _, _)
\* lines 237-251, from the character at (0-based) index idx on
ScanFlags(arg, idx, st) ==
    IF idx >= Len(arg) THEN st
    ELSE LET c == arg[idx + 1]
             st1 == IF c \in Range(grep_flags_suppress_implicit_pattern_arg)
                    THEN [st EXCEPT !.awaiting = FALSE]
                    ELSE IF c \in Range(grep_flags_matcher_select)
                    THEN [st EXCEPT !.use_default = FALSE]
                    ELSE st
         IN  IF c = "V"
             THEN ScanFlags(arg, idx + 1, [st EXCEPT !.version = TRUE])
             ELSE IF c \in Range(grep_flags_with_argument)
             THEN IF idx = Len(arg) - 1
                  THEN [st1 EXCEPT !.next = GrepArgsAppend]
                  ELSE st1
             ELSE ScanFlags(arg, idx + 1, st1)

\* lines 236-251 without the test of line 236: a long flag is scanned too
FlagEffect_LongScanned(arg) == ScanFlags(arg, 1, ScanState)

\* lines 236-251: a long flag ('--...') is not scanned
FlagEffect(arg) ==
    IF arg[2] # "-" THEN ScanFlags(arg, 1, ScanState) ELSE ScanState

\* lines 232-251; arg[1] raises IndexError on a token of one character
GrepFlag(arg) ==
    /\ Takes(arg, "flag")
    /\ grep_args' = Append(grep_args, arg)
    /\ IF Len(arg) < 2
       THEN /\ pc' = "raised"
            /\ UNCHANGED << version, awaiting_implicit_pattern_arg,
                            use_default_matcher, next_arg_processor >>
       ELSE /\ pc' = pc
            /\ version' = FlagEffect(arg).version
            /\ awaiting_implicit_pattern_arg' = FlagEffect(arg).awaiting
            /\ use_default_matcher' = FlagEffect(arg).use_default
            /\ next_arg_processor' = FlagEffect(arg).next
    /\ UNCHANGED << explain, help, show, include_globs, exclude_globs, editor,
                    grep_color_arg, revisions, extension_globs >>

\* lines 253-255 with line 254 forgotten: the slot is never given up
ImplicitPattern_StillAwaiting(arg) ==
    /\ Takes(arg, "pattern")
    /\ grep_args' = Append(grep_args, arg)
    /\ UNCHANGED << pc, explain, help, show, version, include_globs,
                    exclude_globs, editor, grep_color_arg, revisions,
                    extension_globs, use_default_matcher, next_arg_processor,
                    awaiting_implicit_pattern_arg >>

\* lines 253-255
ImplicitPattern(arg) ==
    /\ Takes(arg, "pattern")
    /\ awaiting_implicit_pattern_arg' = FALSE
    /\ grep_args' = Append(grep_args, arg)
    /\ UNCHANGED << pc, explain, help, show, version, include_globs,
                    exclude_globs, editor, grep_color_arg, revisions,
                    extension_globs, use_default_matcher, next_arg_processor >>

\* lines 256-257
ExtensionGlob(arg) ==
    /\ Takes(arg, "extension")
    /\ extension_globs' = Append(extension_globs, arg)
    /\ UNCHANGED << pc, explain, help, show, version, include_globs,
                    exclude_globs, grep_args, editor, grep_color_arg, revisions,
                    use_default_matcher, next_arg_processor,
                    awaiting_implicit_pattern_arg >>

\* lines 258-259 with the append of the final else forgotten
IncludeGlob_Dropped(arg) ==
    /\ Takes(arg, "include")
    /\ UNCHANGED << pc, explain, help, show, version, include_globs,
                    exclude_globs, grep_args, editor, grep_color_arg, revisions,
                    extension_globs, use_default_matcher, next_arg_processor,
                    awaiting_implicit_pattern_arg >>

\* lines 258-259
IncludeGlob(arg) ==
    /\ Takes(arg, "include")
    /\ include_globs' = Append(include_globs, arg)
    /\ UNCHANGED << pc, explain, help, show, version, exclude_globs, grep_args,
                    editor, grep_color_arg, revisions, extension_globs,
                    use_default_matcher, next_arg_processor,
                    awaiting_implicit_pattern_arg >>

\* line 262: ext = '**{%s}' % ','.join(extension_globs)
ExtGlob(exts) == <<"*","*","{">> \o Join(exts, <<",">>) \o <<"}">>

\* line 264 without the rstrip
SuffixWith_NoStrip(g, ext) == g \o <<"/">> \o ext

\* line 264: glob.rstrip('/') + '/' + ext
SuffixWith(g, ext) == RStrip(g, "/") \o <<"/">> \o ext

\* lines 261-266
MergeExtensions(globs, exts) ==
    IF exts = <<>> THEN globs
    ELSE IF globs # <<>>
    THEN [k \in 1..Len(globs) |-> SuffixWith(globs[k], ExtGlob(exts))]
    ELSE << ExtGlob(exts) >>

\* lines 268-269 with append in place of insert(0, ...)
WithDefaultMatcher_Appended(gargs, use_default) ==
    IF use_default THEN Append(gargs, grep_default_matcher) ELSE gargs

\* lines 268-269: grep_args.insert(0, grep_default_matcher)
WithDefaultMatcher(gargs, use_default) ==
    IF use_default THEN << grep_default_matcher >> \o gargs ELSE gargs

\* lines 261-269: the vector is exhausted, the constructor returns
Finalize ==
    /\ pc = "parse"
    /\ pc' = "parsed"
    /\ include_globs' = MergeExtensions(include_globs, extension_globs)
    /\ grep_args' = WithDefaultMatcher(grep_args, use_default_matcher)
    /\ UNCHANGED << globVars, driverVars >>
    /\ UNCHANGED << args, explain, help, show, version, exclude_globs, editor,
                    grep_color_arg, revisions, extension_globs,
                    use_default_matcher, next_arg_processor,
                    awaiting_implicit_pattern_arg >>

\* one iteration of the loop at line 215
ProcessArg(arg) ==
    \/ Continuation(arg)
    \/ EditorFlag(arg)
    \/ ToolSwitch(arg)
    \/ ExcludeFlag(arg)
    \/ ColorFlag(arg)
    \/ RevFlag(arg)
    \/ GrepFlag(arg)
    \/ ImplicitPattern(arg)
    \/ ExtensionGlob(arg)
    \/ IncludeGlob(arg)

Next ==
    \/ \E arg \in Tokens : ProcessArg(arg)
    \/ Finalize

Spec == Init /\ [][Next]_vars

\* ------------------------------------------------ glob_to_grep_pattern

\* the characters globs are built from
GlobChars == {"a", ".", "/", "*", "?", ",", "{", "}", "[", "]"}

\* the globs handed to glob_to_grep_pattern
Globs == UNION { [1..n -> GlobChars] : n \in 0..MaxGlobLen }

\* the ASCII letters and digits
AsciiAlnum ==
    { "a", "b", "c", "d", "e", "f", "g", "h", "i", "j", "k", "l", "m", "n",
      "o", "p", "q", "r", "s", "t", "u", "v", "w", "x", "y", "z",
      "A", "B", "C", "D", "E", "F", "G", "H", "I", "J", "K", "L", "M", "N",
      "O", "P", "Q", "R", "S", "T", "U", "V", "W", "X", "Y", "Z",
      "0", "1", "2", "3", "4", "5", "6", "7", "8", "9" }

\* the characters re.escape leaves alone: ASCII letters, digits and '_'
\* (the re.escape the doctests of lines 55-58 were written for escapes '/')
EscapeExempt == AsciiAlnum \cup {"_"}

RECURSIVE SubDotFrom(_, _)
\* line 78: re.sub(r'(^|(?<=/))\.(/|$)', '', glob), from position p on; the
\* lookbehind reads the original string, matches do not overlap
SubDotFrom(s, p) ==
    IF p > Len(s) THEN <<>>
    ELSE IF /\ s[p] = "."
            /\ (p = 1 \/ s[p - 1] = "/")
            /\ (p = Len(s) \/ s[p + 1] = "/")
    THEN SubDotFrom(s, IF p = Len(s) THEN p + 1 ELSE p + 2)
    ELSE << s[p] >> \o SubDotFrom(s, p + 1)

RECURSIVE SubDotKeepingSlash(_, _)
\* line 78 with the pattern r'(^|(?<=/))\.(?=/|$)': the '/' after '.' stays
SubDotKeepingSlash(s, p) ==
    IF p > Len(s) THEN <<>>
    ELSE IF /\ s[p] = "."
            /\ (p = 1 \/ s[p - 1] = "/")
            /\ (p = Len(s) \/ s[p + 1] = "/")
    THEN SubDotKeepingSlash(s, p + 1)
    ELSE << s[p] >> \o SubDotKeepingSlash(s, p + 1)

\* line 78 with the lookahead pattern
SubDot_KeepingSlash(s) == SubDotKeepingSlash(s, 1)

\* line 78
SubDot(s) == SubDotFrom(s, 1)

\* the position of the first ']' of s after position p, or 0
NextClose(s, p) ==
    IF \E q \in (p + 1)..Len(s) : s[q] = "]"
    THEN CHOOSE q \in (p + 1)..Len(s) :
            s[q] = "]" /\ \A k \in (p + 1)..(q - 1) : s[k] # "]"
    ELSE 0

\* line 84: the length of the match of (\*\*/?|[*?,{}]|\[[^]]+\]) at position
\* p of s, 0 if it does not match there
MatchLen(s, p) ==
    IF s[p] = "*" /\ p + 1 <= Len(s) /\ s[p + 1] = "*"
    THEN IF p + 2 <= Len(s) /\ s[p + 2] = "/" THEN 3 ELSE 2
    ELSE IF s[p] \in {"*", "?", ",", "{", "}"} THEN 1
    ELSE IF s[p] = "[" /\ NextClose(s, p) >= p + 2 THEN NextClose(s, p) - p + 1
    ELSE 0

RECURSIVE SplitFrom(_, _, _)
\* line 84: re.split with one capturing group, from position p on, lit being
\* the text since the last separator
SplitFrom(s, p, lit) ==
    IF p > Len(s) THEN << lit >>
    ELSE IF MatchLen(s, p) = 0 THEN SplitFrom(s, p + 1, Append(lit, s[p]))
    ELSE << lit, SubSeq(s, p, p + MatchLen(s, p) - 1) >>
         \o SplitFrom(s, p + MatchLen(s, p), <<>>)

\* line 84: literals at the even indexes, separators at the odd ones
Split(s) == SplitFrom(s, 1, <<>>)

RECURSIVE Escape(_)
\* line 88: re.escape
Escape(s) ==
    IF s = <<>> THEN <<>>
    ELSE (IF Head(s) \in EscapeExempt THEN << Head(s) >> ELSE << "\\", Head(s) >>)
         \o Escape(Tail(s))

RECURSIVE Concat(_)
\* line 117: ''.join(result)
Concat(list) == IF list = <<>> THEN <<>> ELSE Head(list) \o Concat(Tail(list))

\* lines 107, 114: ValueError('invalid glob pattern (<reason> "}"): %s' % glob)
ValueError(reason, g) == [reason |-> reason, glob |-> g]

\* a call of glob_to_grep_pattern
GlobInit ==
    /\ glob \in Globs
    /\ gpc = "call"
    /\ glob2 = <<>>
    /\ pieces = <<>>
    /\ i = 0
    /\ brace_depth = 0
    /\ result = <<>>
    /\ ret = None
    /\ err = None

\* the parser is not running
ParserIdle ==
    /\ args = <<>>
    /\ pc = "idle"
    /\ explain = FALSE
    /\ help = FALSE
    /\ show = FALSE
    /\ version = FALSE
    /\ include_globs = <<>>
    /\ exclude_globs = <<>>
    /\ grep_args = <<>>
    /\ editor = None
    /\ grep_color_arg = default_color_arg
    /\ revisions = <<>>
    /\ extension_globs = <<>>
    /\ use_default_matcher = TRUE
    /\ next_arg_processor = NoProcessor
    /\ awaiting_implicit_pattern_arg = TRUE

\* lines 78-84
Normalize ==
    /\ gpc = "call"
    /\ glob2' = SubDot(glob)
    /\ IF SubDot(glob) = <<>>
       THEN /\ gpc' = "returned"
            /\ ret' = <<>>
            /\ UNCHANGED << pieces, brace_depth, result >>
       ELSE /\ gpc' = "walk"
            /\ brace_depth' = 0
            /\ result' = << <<"^">> >>
            /\ pieces' = Split(SubDot(glob))
            /\ ret' = ret
    /\ UNCHANGED << glob, i, err, parserVars, driverVars >>

\* the loop of line 84 is at piece number i (0-based)
AtPiece == gpc = "walk" /\ i < Len(pieces)

\* the piece of this iteration
piece == pieces[i + 1]

\* the iteration appends fragment to result and goes on
Emit(fragment) ==
    /\ result' = Append(result, fragment)
    /\ i' = i + 1
    /\ UNCHANGED << glob, gpc, glob2, pieces, ret, err, parserVars, driverVars >>

\* lines 85-86
SkipEmpty ==
    /\ AtPiece
    /\ piece = <<>>
    /\ i' = i + 1
    /\ UNCHANGED << glob, gpc, glob2, pieces, brace_depth, result, ret, err,
                    parserVars, driverVars >>

\* lines 87-88 without the re.escape
Literal_Unescaped ==
    /\ AtPiece
    /\ piece # <<>>
    /\ i % 2 = 0
    /\ Emit(piece)
    /\ UNCHANGED brace_depth

\* lines 87-88
Literal ==
    /\ AtPiece
    /\ piece # <<>>
    /\ i % 2 = 0
    /\ Emit(Escape(piece))
    /\ UNCHANGED brace_depth

\* a separator (odd index) that is not empty
AtSeparator == AtPiece /\ piece # <<>> /\ i % 2 # 0

\* lines 89-90
Question ==
    /\ AtSeparator
    /\ piece = <<"?">>
    /\ Emit(<<".">>)
    /\ UNCHANGED brace_depth

\* lines 91-92
Star ==
    /\ AtSeparator
    /\ piece = <<"*">>
    /\ Emit(<<"[", "^", "/", "]", "*">>)
    /\ UNCHANGED brace_depth

\* lines 93-94
DoubleStar ==
    /\ AtSeparator
    /\ piece \notin { <<"?">>, <<"*">> }
    /\ piece[1] = "*"
    /\ Emit(<<".", "*">>)
    /\ UNCHANGED brace_depth

\* lines 95-96
Bracket ==
    /\ AtSeparator
    /\ piece \notin { <<"?">>, <<"*">> }
    /\ piece[1] = "["
    /\ Emit(piece)
    /\ UNCHANGED brace_depth

\* lines 97-99
OpenBrace ==
    /\ AtSeparator
    /\ piece = <<"{">>
    /\ Emit(<<"(">>)
    /\ brace_depth' = brace_depth + 1

\* lines 101-104 without the test of the depth: every ',' separates alternatives
CommaFragment_AlwaysBar(depth) == <<"|">>

\* the fragment a ',' becomes at this depth, lines 101-104
CommaFragment(depth) == IF depth = 0 THEN <<",">> ELSE <<"|">>

\* lines 100-104
Comma ==
    /\ AtSeparator
    /\ piece = <<",">>
    /\ Emit(CommaFragment(brace_depth))
    /\ UNCHANGED brace_depth

\* line 106 with the test that never fires
UnexpectedClose_Unchecked(depth) == depth < 0

\* line 106: a '}' with no group open
UnexpectedClose(depth) == depth = 0

\* lines 105-109
CloseBrace ==
    /\ AtSeparator
    /\ piece = <<"}">>
    /\ IF UnexpectedClose(brace_depth)
       THEN /\ gpc' = "raised"
            /\ err' = ValueError("unexpected", glob)
            /\ UNCHANGED << glob, glob2, pieces, i, brace_depth, result, ret,
                            parserVars, driverVars >>
       ELSE /\ Emit(<<")">>)
            /\ brace_depth' = brace_depth - 1

\* line 113: a group is still open after the last piece
Unclosed(depth) == depth > 0

\* lines 113-117
Finish ==
    /\ gpc = "walk"
    /\ i = Len(pieces)
    /\ IF Unclosed(brace_depth)
       THEN /\ gpc' = "raised"
            /\ err' = ValueError("unclosed", glob)
            /\ UNCHANGED << result, ret >>
       ELSE /\ gpc' = "returned"
            /\ result' = Append(result, <<"(", "/", "|", "$", ")">>)
            /\ ret' = Concat(result')
            /\ err' = err
    /\ UNCHANGED << glob, glob2, pieces, i, brace_depth, parserVars, driverVars >>

\* one step of the call; the split yields only the separators handled above, so
\* the final else of the loop (lines 110-111) is never taken
GlobNext ==
    \/ Normalize
    \/ SkipEmpty
    \/ Literal
    \/ Question
    \/ Star
    \/ DoubleStar
    \/ Bracket
    \/ OpenBrace
    \/ Comma
    \/ CloseBrace
    \/ Finish

GlobSpecInit == GlobInit /\ ParserIdle /\ DriverIdle

GlobSpec == GlobSpecInit /\ [][GlobNext]_vars

\* ------------------------------- glob_to_grep_pattern as the driver calls it

\* the value of a call: the pattern returned, or the ValueError raised
Returned(pattern) == [raised |-> FALSE, pattern |-> pattern, error |-> None]
Raised(error) == [raised |-> TRUE, pattern |-> None, error |-> error]

RECURSIVE WalkPieces(_, _, _, _, _)
\* lines 84-117: the loop from piece number k (0-based) on, at depth, res
\* being the fragments appended so far
WalkPieces(g, ps, k, depth, res) ==
    IF k >= Len(ps)
    THEN IF Unclosed(depth) THEN Raised(ValueError("unclosed", g))
         ELSE Returned(Concat(Append(res, <<"(", "/", "|", "$", ")">>)))
    ELSE LET p == ps[k + 1]
         IN  IF p = <<>> THEN WalkPieces(g, ps, k + 1, depth, res)
             ELSE IF k % 2 = 0
             THEN WalkPieces(g, ps, k + 1, depth, Append(res, Escape(p)))
             ELSE IF p = <<"?">>
             THEN WalkPieces(g, ps, k + 1, depth, Append(res, <<".">>))
             ELSE IF p = <<"*">>
             THEN WalkPieces(g, ps, k + 1, depth,
                             Append(res, <<"[", "^", "/", "]", "*">>))
             ELSE IF p[1] = "*"
             THEN WalkPieces(g, ps, k + 1, depth, Append(res, <<".", "*">>))
             ELSE IF p[1] = "["
             THEN WalkPieces(g, ps, k + 1, depth, Append(res, p))
             ELSE IF p = <<"{">>
             THEN WalkPieces(g, ps, k + 1, depth + 1, Append(res, <<"(">>))
             ELSE IF p = <<",">>
             THEN WalkPieces(g, ps, k + 1, depth, Append(res, CommaFragment(depth)))
             ELSE IF UnexpectedClose(depth)
             THEN Raised(ValueError("unexpected", g))
             ELSE WalkPieces(g, ps, k + 1, depth - 1, Append(res, <<")">>))

\* lines 36-117: the whole call
glob_to_grep_pattern(g) ==
    IF SubDot(g) = <<>> THEN Returned(<<>>)
    ELSE WalkPieces(g, Split(SubDot(g)), 0, 0, << <<"^">> >>)

\* the call taken step by step ends as the call taken at once
StepsAgreeWithCall ==
    /\ gpc = "returned" => glob_to_grep_pattern(glob) = Returned(ret)
    /\ gpc = "raised" => glob_to_grep_pattern(glob) = Raised(err)

\* ------------------------------------------------ ArgParser.__repr__

\* the characters of the field names, in code point order
NameChars ==
    << "_", "a", "b", "c", "d", "e", "f", "g", "h", "i", "j", "k", "l", "m",
       "n", "o", "p", "q", "r", "s", "t", "u", "v", "w", "x", "y", "z" >>

\* ord(c) up to a shift
Ord(c) == CHOOSE k \in DOMAIN NameChars : NameChars[k] = c

RECURSIVE StrLess(_, _)
\* a < b on strings
StrLess(a, b) ==
    IF b = <<>> THEN FALSE
    ELSE IF a = <<>> THEN TRUE
    ELSE IF Head(a) = Head(b) THEN StrLess(Tail(a), Tail(b))
    ELSE Ord(Head(a)) < Ord(Head(b))

\* self.__dict__.items(): the attributes set at lines 198-208, with the kind
\* of value each holds
Fields ==
    { [name |-> <<"e","x","p","l","a","i","n">>, kind |-> "bool", flag |-> explain,
       list |-> <<>>, str |-> None],
      [name |-> <<"h","e","l","p">>, kind |-> "bool", flag |-> help,
       list |-> <<>>, str |-> None],
      [name |-> <<"s","h","o","w">>, kind |-> "bool", flag |-> show,
       list |-> <<>>, str |-> None],
      [name |-> <<"v","e","r","s","i","o","n">>, kind |-> "bool", flag |-> version,
       list |-> <<>>, str |-> None],
      [name |-> <<"i","n","c","l","u","d","e","_","g","l","o","b","s">>,
       kind |-> "list", flag |-> FALSE, list |-> include_globs, str |-> None],
      [name |-> <<"e","x","c","l","u","d","e","_","g","l","o","b","s">>,
       kind |-> "list", flag |-> FALSE, list |-> exclude_globs, str |-> None],
      [name |-> <<"g","r","e","p","_","a","r","g","s">>,
       kind |-> "list", flag |-> FALSE, list |-> grep_args, str |-> None],
      [name |-> <<"e","d","i","t","o","r">>,
       kind |-> "str", flag |-> FALSE, list |-> <<>>, str |-> editor],
      [name |-> <<"g","r","e","p","_","c","o","l","o","r","_","a","r","g">>,
       kind |-> "str", flag |-> FALSE, list |-> <<>>, str |-> grep_color_arg],
      [name |-> <<"r","e","v","i","s","i","o","n","s">>,
       kind |-> "list", flag |-> FALSE, list |-> revisions, str |-> None] }

\* line 275 with a default value filtered out as well
Shown_NonDefault(f) ==
    /\ f.name[1] # "_"
    /\ IF f.kind = "bool" THEN f.flag
       ELSE IF f.kind = "list" THEN f.list # <<>>
       ELSE f.str # None /\ f.str # <<>> /\ f.str # default_color_arg

\* line 275: k[0] != '_' and v, the truth value of v being Python's
Shown(f) ==
    /\ f.name[1] # "_"
    /\ IF f.kind = "bool" THEN f.flag
       ELSE IF f.kind = "list" THEN f.list # <<>>
       ELSE f.str # None /\ f.str # <<>>

RECURSIVE ReprEscape(_, _)
\* the body of repr(str): a backslash and the quote in use are escaped
ReprEscape(str, q) ==
    IF str = <<>> THEN <<>>
    ELSE (IF Head(str) \in {"\\", q} THEN << "\\", Head(str) >> ELSE << Head(str) >>)
         \o ReprEscape(Tail(str), q)

\* repr(str) of a printable string: double quotes only for a string that
\* holds a single quote and no double quote
ReprStr(str) ==
    LET q == IF "'" \in Range(str) /\ "\"" \notin Range(str) THEN "\"" ELSE "'"
    IN  << q >> \o ReprEscape(str, q) \o << q >>

\* repr(list of str)
ReprList(list) ==
    <<"[">> \o Join([k \in 1..Len(list) |-> ReprStr(list[k])], <<",", " ">>) \o <<"]">>

\* line 273: '%s: %r' % (k, v)
ReprLine(f) ==
    f.name \o <<":", " ">>
    \o (IF f.kind = "bool" THEN (IF f.flag THEN <<"True">> ELSE <<"False">>)
        ELSE IF f.kind = "list" THEN ReprList(f.list)
        ELSE ReprStr(f.str))

RECURSIVE SortedByName(_)
\* line 274: sorted(...) of items with distinct keys
SortedByName(fs) ==
    IF fs = {} THEN <<>>
    ELSE LET first == CHOOSE f \in fs : \A h \in fs \ {f} : StrLess(f.name, h.name)
         IN  << first >> \o SortedByName(fs \ {first})

\* lines 271-276: the lines __repr__ joins with '\n'
Repr ==
    LET shown == SelectSeq(SortedByName(Fields), Shown)
    IN  [k \in 1..Len(shown) |-> ReprLine(shown[k])]

\* ------------------------------------------------------------ __main__

\* the characters shlex.quote leaves unquoted: [\w@%+=:,./-]
ShlexSafe ==
    AsciiAlnum \cup { "_", "@", "%", "+", "=", ":", ",", ".", "/", "-" }

RECURSIVE ReplaceQuote(_)
\* s.replace("'", "'\"'\"'")
ReplaceQuote(str) ==
    IF str = <<>> THEN <<>>
    ELSE (IF Head(str) = "'" THEN <<"'", "\"", "'", "\"", "'">> ELSE << Head(str) >>)
         \o ReplaceQuote(Tail(str))

\* line 345: shlex.quote(a)
ShlexQuote(a) ==
    IF a = <<>> THEN <<"'", "'">>
    ELSE IF Range(a) \subseteq ShlexSafe THEN a
    ELSE <<"'">> \o ReplaceQuote(a) \o <<"'">>

\* lines 344-345: quote(args, pattern), pattern being prefix + '%s'
quote(list, prefix) ==
    Join([k \in 1..Len(list) |-> prefix \o ShlexQuote(list[k])], <<" ">>)

\* line 342
grep == <<"grep --binary-files=without-match -H">>

\* the lookup that tries the first glob only
FirstRefused_OnlyFirst(patterns) ==
    IF patterns # <<>> /\ glob_to_grep_pattern(patterns[1]).raised THEN 1 ELSE 0

\* the first glob of patterns that glob_to_grep_pattern refuses, if any
FirstRefused(patterns) ==
    LET bad == { k \in DOMAIN patterns : glob_to_grep_pattern(patterns[k]).raised }
    IN  IF bad = {} THEN 0 ELSE CHOOSE k \in bad : \A j \in bad : k <= j

\* line 282: the value returned when every glob compiles
GrepPipe(patterns) ==
    <<"| grep -EzZ ">>
    \o quote([k \in 1..Len(patterns) |-> glob_to_grep_pattern(patterns[k]).pattern],
             <<"-e ">>)

\* line 284: '%s: %s' % (prog, e), e being the ValueError of lines 107, 114
GlobMessage(name, error) ==
    << name, ": invalid glob pattern (", error.reason, " \"}\"): " >> \o error.glob

\* lines 279-284: globs_to_grep_pipe(prog, patterns)
globs_to_grep_pipe(name, patterns) ==
    IF FirstRefused(patterns) = 0
    THEN [exits |-> FALSE, pipe |-> GrepPipe(patterns), message |-> <<>>]
    ELSE [exits |-> TRUE, pipe |-> <<>>,
          message |-> GlobMessage(name,
                         glob_to_grep_pattern(patterns[FirstRefused(patterns)]).error)]

\* the script starts: nothing is parsed, written or run yet
DriverInit ==
    /\ prog \in ProgNames
    /\ dpc = "start"
    /\ cmd = <<>>
    /\ stdout = <<>>
    /\ stderr = <<>>
    /\ status = "running"
    /\ executed = <<>>

\* sys.exit(code), and raise SystemExit(message) with code "1"
Exit(code) == dpc' = "exited" /\ status' = code

\* lines 288-295: the program name is settled and ArgParser is called
SelectProg ==
    /\ dpc = "start"
    /\ IF prog \in {"hgg", "ggit"}
       THEN /\ dpc' = "ArgParser"
            /\ pc' = "parse"
            /\ UNCHANGED << stderr, status >>
       ELSE /\ Exit("1")
            /\ stderr' = << << prog, ": must be invoked as \"hgg\" or \"gitg\"" >> >>
            /\ pc' = pc
    /\ UNCHANGED << args, explain, help, show, version, include_globs,
                    exclude_globs, grep_args, editor, grep_color_arg, revisions,
                    extension_globs, use_default_matcher, next_arg_processor,
                    awaiting_implicit_pattern_arg >>
    /\ UNCHANGED << prog, cmd, stdout, executed, globVars >>

\* lines 297-299
ExplainHandling ==
    /\ dpc = "ArgParser"
    /\ pc = "parsed"
    /\ IF explain
       THEN /\ stdout' = Repr
            /\ Exit("0")
       ELSE /\ dpc' = "version"
            /\ UNCHANGED << stdout, status >>
    /\ UNCHANGED << prog, cmd, stderr, executed, parserVars, globVars >>

\* lines 301-309: the first line of each utility's version output, or the
\* line saying that it is broken, is the environment's
VersionHandling ==
    /\ dpc = "version"
    /\ IF version
       THEN /\ stdout' = << <<"vcsgrep ", vcsgrep_version>>, <<"grep --version">>,
                            <<"sed --version">>, <<"xargs --version">>,
                            <<"hg --version">>, <<"git --version">> >>
            /\ Exit("0")
       ELSE /\ dpc' = "help"
            /\ UNCHANGED << stdout, status >>
    /\ UNCHANGED << prog, cmd, stderr, executed, parserVars, globVars >>

\* lines 312-339: the usage text, with the paragraph on -r for hgg
Usage ==
    IF prog = "hgg"
    THEN << <<"usage: ", prog, " Mercurial">>, <<"Use -r REV">> >>
    ELSE << <<"usage: ", prog, " Git">> >>

\* lines 311-340; sys.argv[1:] is the vector ArgParser was given
HelpHandling ==
    /\ dpc = "help"
    /\ IF help \/ Len(args) + 1 < 2 \/ args = << <<"-","h">> >>
       THEN /\ stderr' = Usage
            /\ Exit("1")
       ELSE /\ dpc' = "lister"
            /\ UNCHANGED << stderr, status >>
    /\ UNCHANGED << prog, cmd, stdout, executed, parserVars, globVars >>

\* lines 350-354
HgStatus ==
    <<"HGPLAIN=1 hg status --print0 --no-status -X 'set:symlink()' ">>
    \o quote(include_globs, <<"-I ">>) \o <<" ">>
    \o quote(exclude_globs, <<"-X ">>) \o <<" ">>
    \o quote(revisions, <<"--rev ">>)

\* lines 356-366
HgFiles ==
    <<"HGPLAIN=1 hg files --print0 ">>
    \o quote(include_globs, <<"-I ">>) \o <<" ">>
    \o quote(exclude_globs, <<"-X ">>)
    \o <<" --verbose | sed --null-data -n -e 's/^.........[0-9] [^l] \\(.*\\)/\\1/p'">>

\* line 373
GitLsFiles ==
    <<"git ls-files --stage -z | sed --null-data -n -e 's/^100... .*\\t\\(.*\\)/\\1/p'">>

\* lines 374-377: the outcome of the two calls of globs_to_grep_pipe, the
\* second being made only if the first returns
GitFilters ==
    LET inc == globs_to_grep_pipe(prog, include_globs)
        exc == globs_to_grep_pipe(prog, exclude_globs)
    IN  IF include_globs # <<>> /\ inc.exits THEN inc
        ELSE IF exclude_globs # <<>> /\ exc.exits THEN exc
        ELSE [exits |-> FALSE, message |-> <<>>,
              pipe |-> (IF include_globs # <<>> THEN inc.pipe ELSE <<>>)
                       \o (IF exclude_globs # <<>>
                           THEN exc.pipe \o <<" -v">> ELSE <<>>)]

\* lines 347-379: the command that lists the files
Lister ==
    /\ dpc = "lister"
    /\ IF prog = "hgg"
       THEN /\ cmd' = IF revisions # <<>> THEN HgStatus ELSE HgFiles
            /\ dpc' = "grep"
            /\ UNCHANGED << stderr, status >>
       ELSE IF revisions # <<>>
       THEN /\ stderr' = << << prog, ": --rev is not implemented for Git" >> >>
            /\ Exit("1")
            /\ cmd' = cmd
       ELSE IF GitFilters.exits
       THEN /\ stderr' = << GitFilters.message >>
            /\ Exit("1")
            /\ cmd' = cmd
       ELSE /\ cmd' = GitLsFiles \o GitFilters.pipe
            /\ dpc' = "grep"
            /\ UNCHANGED << stderr, status >>
    /\ UNCHANGED << prog, stdout, executed, parserVars, globVars >>

\* lines 381-384: what args.grep_args.extend(...) leaves in grep_args
Extended(gargs) ==
    IF editor # None /\ editor # <<>>
    THEN gargs \o << <<"-","l">>, <<"-","-","n","u","l","l">> >>
    ELSE gargs \o << grep_color_arg >>

\* lines 381-385: grep_args is extended in place and the grep stage added
GrepStage ==
    /\ dpc = "grep"
    /\ grep_args' = Extended(grep_args)
    /\ cmd' = cmd \o <<" | xargs -0 ">> \o grep \o <<" ">>
                  \o quote(Extended(grep_args), <<>>) \o <<" --">>
    /\ dpc' = "editor"
    /\ UNCHANGED << args, pc, explain, help, show, version, include_globs,
                    exclude_globs, editor, grep_color_arg, revisions,
                    extension_globs, use_default_matcher, next_arg_processor,
                    awaiting_implicit_pattern_arg >>
    /\ UNCHANGED << prog, stdout, stderr, status, executed, globVars >>

\* lines 387-419: an editor that needs stdin is run next to the pipeline
\* (lines 406-415, r being the descriptor of the pipe), any other is appended
EditorStage ==
    /\ dpc = "editor"
    /\ IF editor # None /\ editor # <<>>
       THEN IF editor \in Range(editors_that_need_stdin) /\ ~show
            THEN /\ executed' =
                      << cmd,
                         <<"xargs --arg-file=/dev/fd/r --no-run-if-empty -0 ">>
                         \o editor >>
                 /\ Exit("0")
                 /\ cmd' = cmd
            ELSE /\ cmd' = cmd \o <<" | xargs --no-run-if-empty -0 ">> \o editor
                 /\ dpc' = "show"
                 /\ UNCHANGED << executed, status >>
       ELSE /\ dpc' = "show"
            /\ UNCHANGED << cmd, executed, status >>
    /\ UNCHANGED << prog, stdout, stderr, parserVars, globVars >>

\* lines 421-424: the status of sys.exit(os.system(cmd)) is the pipeline's
ShowOrExecute ==
    /\ dpc = "show"
    /\ IF show
       THEN /\ stdout' = << cmd >>
            /\ Exit("0")
            /\ executed' = executed
       ELSE /\ executed' = << cmd >>
            /\ Exit("os.system")
            /\ stdout' = stdout
    /\ UNCHANGED << prog, cmd, stderr, parserVars, globVars >>

\* the script: lines 288-424, ArgParser being run token by token
DriverNext ==
    \/ SelectProg
    \/ \E arg \in DriverTokens : ProcessArg(arg)
    \/ Finalize
    \/ ExplainHandling
    \/ VersionHandling
    \/ HelpHandling
    \/ Lister
    \/ GrepStage
    \/ EditorStage
    \/ ShowOrExecute

DriverSpecInit == ParserIdle /\ GlobIdle /\ DriverInit

DriverSpec == DriverSpecInit /\ [][DriverNext]_vars

\* ====================================================== the claims: ArgParser

\* a step of the loop: one more token of the vector is taken
TokenStep == pc = "parse" /\ Len(args') = Len(args) + 1

\* the token a TokenStep takes
Taken == args'[Len(args')]

\* the step in which the constructor returns
FinalizeStep == pc = "parse" /\ pc' = "parsed"

\* the five list destinations
Lists ==
    << grep_args, include_globs, extension_globs, exclude_globs, revisions >>

\* the number of tokens the lists hold
ListTotal ==
    Len(grep_args) + Len(include_globs) + Len(extension_globs)
    + Len(exclude_globs) + Len(revisions)

\* every destination the total-consumption claim names
Destinations ==
    << grep_args, include_globs, extension_globs, exclude_globs, revisions,
       editor, grep_color_arg, explain, help, show, version >>

\* a revision flag whose value is in the next token
BareRevision(t) == t \in { T_r, T_rev }

\* the tool's own flags that store no token in a list: editor selectors,
\* boolean switches, color flags, and the bare flags that only announce that
\* the next token is an exclude glob or a revision
ScalarOrBareToolFlag(t) ==
    \/ t \in { T_vim, T_gvim }
    \/ t \in { T_explain, T_help, T_show, T_version }
    \/ t = T_color
    \/ StartsWith(t, <<"-","-","c","o","l","o","r","=">>)
    \/ t = T_X
    \/ BareRevision(t)

\* what a token leaves in a list: itself, or the value of an attached '-rR'
Stored(t, pending) ==
    IF ~pending /\ StartsWith(t, T_r) /\ Len(t) > 2 THEN SubSeq(t, 3, Len(t)) ELSE t

\* ------------------------------------ the classification, read off the vector

\* a token the classifier recognizes as its own when no continuation is pending
ToolOwn(t) == ScalarOrBareToolFlag(t) \/ StartsWith(t, T_r)

\* a token that looks like a flag and is not the tool's own
ForwardedFlag(t) == Len(t) >= 2 /\ t[1] = "-" /\ ~ToolOwn(t)

\* a single-dash cluster of matcher flags
ShortCluster(t) == ForwardedFlag(t) /\ t[2] # "-"

\* the matcher flags that take an argument
ArgumentTaking == {"e", "f", "m", "A", "B", "C", "d", "D"}

\* the position of the first argument-taking flag of a cluster, 0 if none
FirstArgFlag(t) ==
    IF \E k \in 2..Len(t) : t[k] \in ArgumentTaking
    THEN CHOOSE k \in 2..Len(t) :
            t[k] \in ArgumentTaking /\ \A j \in 2..(k - 1) : t[j] \notin ArgumentTaking
    ELSE 0

\* the character at position k of a cluster is a flag, not part of the argument
\* embedded after an argument-taking flag
FlagAt(t, k) == k \in 2..Len(t) /\ (FirstArgFlag(t) = 0 \/ k <= FirstArgFlag(t))

\* the token acts as one of the mode flags E, F, G, P
SelectsMode(t) ==
    ShortCluster(t) /\ \E k \in 2..Len(t) : FlagAt(t, k) /\ t[k] \in {"E", "F", "G", "P"}

\* the token acts as a pattern-supplying flag, -e or -f
SuppliesPattern(t) ==
    ShortCluster(t) /\ FirstArgFlag(t) # 0 /\ t[FirstArgFlag(t)] \in {"e", "f"}

\* the cluster ends in an argument-taking flag: its argument is the next token
AwaitsArgument(t) == ShortCluster(t) /\ FirstArgFlag(t) = Len(t)

\* the token, met with no continuation pending, sets one
Arms(t) == t = T_X \/ BareRevision(t) \/ AwaitsArgument(t)

RECURSIVE ConsumedAt(_, _)
\* token k of vector v is consumed as the argument of the token before it
ConsumedAt(v, k) == k > 1 /\ ~ConsumedAt(v, k - 1) /\ Arms(v[k - 1])

\* token k of v is classified by its own form
Classified(v, k) == k \in DOMAIN v /\ ~ConsumedAt(v, k)

\* some token of v selects a matcher mode
ModeSelectedIn(v) == \E k \in DOMAIN v : Classified(v, k) /\ SelectsMode(v[k])

\* token k of v is positional: classified by its form, and no flag
Positional(v, k) ==
    Classified(v, k) /\ ~ToolOwn(v[k]) /\ ~(Len(v[k]) >= 2 /\ v[k][1] = "-")

\* a positional token or a pattern-supplying flag occurs in v before position k
SlotGoneBefore(v, k) ==
    \E j \in 1..(k - 1) :
        Positional(v, j) \/ (Classified(v, j) /\ SuppliesPattern(v[j]))

\* the positions of v that hold a scalar or bare tool flag acting as one
ToolFlagsIn(v) ==
    { k \in DOMAIN v : Classified(v, k) /\ ScalarOrBareToolFlag(v[k]) }

\* C1 as stated: every token is assigned to exactly one destination, i.e.
\* every step of the loop changes exactly one of the destination fields (none
\* dropped, none duplicated); only a bare '-X', '-r' or '--rev', which forms
\* one unit with the token that follows it, changes none.
C1_ExactlyOneDestination ==
    [][TokenStep =>
        LET changed == { k \in 1..11 : Destinations'[k] # Destinations[k] }
        IN  \/ Cardinality(changed) = 1
            \/ /\ Cardinality(changed) = 0
               /\ next_arg_processor = NoProcessor
               /\ Taken = T_X \/ BareRevision(Taken)
    ]_vars

\* C1 as amended: every token is handled by exactly one branch. Either it is
\* stored (itself, or the value R of '-rR') at the end of exactly one of the
\* five lists, the other lists, the editor, the color argument and the explain,
\* help and show switches staying as they were, and the version switch turning
\* on only for a token forwarded to grep_args that contains 'V'; or it is one
\* of the tool's scalar or bare flags met with no continuation pending, which
\* is stored in no list and only overwrites its own field (the last one wins).
\* So the lists hold, before the extension merge and the insertion of '-E',
\* the number of tokens taken minus the number of those flags.
C1_Consumption ==
    /\ [](pc = "parse" => ListTotal = Len(args) - Cardinality(ToolFlagsIn(args)))
    /\ [][TokenStep =>
           LET t == Taken
               pending == next_arg_processor # NoProcessor
           IN  IF ~pending /\ ScalarOrBareToolFlag(t)
               THEN /\ Lists' = Lists
                    /\ editor' = IF t = T_vim THEN <<"v","i","m">>
                                 ELSE IF t = T_gvim THEN <<"g","v","i","m">>
                                 ELSE editor
                    /\ grep_color_arg' =
                         IF t = T_color \/ StartsWith(t, <<"-","-","c","o","l","o","r","=">>)
                         THEN t ELSE grep_color_arg
                    /\ explain' = (explain \/ t = T_explain)
                    /\ help' = (help \/ t = T_help)
                    /\ show' = (show \/ t = T_show)
                    /\ version' = (version \/ t = T_version)
               ELSE /\ ListTotal' = ListTotal + 1
                    /\ \E k \in 1..5 :
                          /\ Lists'[k] = Append(Lists[k], Stored(t, pending))
                          /\ \A j \in 1..5 : j # k => Lists'[j] = Lists[j]
                    /\ UNCHANGED << editor, grep_color_arg, explain, help, show >>
                    /\ version' # version =>
                          /\ version'
                          /\ grep_args' = Append(grep_args, t)
                          /\ "V" \in Range(t)
       ]_vars

\* an overwritten editor flag and a forwarded cluster that also sets the
\* version switch
C1_Witness ==
    /\ pc = "parsed"
    /\ args = << T_vim, T_gvim, T_GV >>
    /\ editor = <<"g","v","i","m">>
    /\ grep_args = << T_GV >>
    /\ version
    /\ ListTotal = 1

\* a token of the tool's own vocabulary, in every form the claims name
ToolSpecificFlag(t) ==
    \/ t \in { T_vim, T_gvim }
    \/ t \in { T_explain, T_help, T_show, T_version }
    \/ t = T_X
    \/ t = T_color
    \/ StartsWith(t, <<"-","-","c","o","l","o","r","=">>)
    \/ t = T_rev
    \/ StartsWith(t, T_r)
    \/ StartsWith(t, <<"-","-","r","e","v","=">>)

\* C2 as stated: no tool-specific flag token (editor, revision in any form,
\* exclude, color, tool switch) is ever in grep_args, whatever precedes it.
C2_NoToolFlagInGrepArgs ==
    \A k \in DOMAIN grep_args : ~ToolSpecificFlag(grep_args[k])

\* C3: the mode-selected state after each token is that some token so far acts
\* as a mode flag E, F, G or P, and the constructor returns grep_args as the
\* forwarded tokens with '-E' inserted at index 0 if and only if no token of
\* the vector does; otherwise it returns the forwarded tokens alone.
C3_DefaultMatcher ==
    [][ /\ TokenStep => use_default_matcher' = ~ModeSelectedIn(args')
        /\ FinalizeStep =>
             grep_args' = IF ModeSelectedIn(args) THEN grep_args
                          ELSE << <<"-","E">> >> \o grep_args
    ]_vars

\* a vector with a mode flag, and '-E' is not inserted
C3_Witness ==
    /\ pc = "parsed"
    /\ args = << T_pat, T_G >>
    /\ grep_args = << T_pat, T_G >>

\* C4: a positional token goes to grep_args exactly when it is the first
\* positional token of the vector and no pattern-supplying flag (-e, -f) acts
\* before it; every other positional token goes to the extension shorthands
\* or to include_globs and leaves grep_args alone; the slot is awaited exactly
\* as long as no positional token and no pattern-supplying flag has been met.
C4_ImplicitPatternSlot ==
    [][TokenStep =>
        LET n == Len(args')
            t == Taken
        IN  /\ awaiting_implicit_pattern_arg' = ~SlotGoneBefore(args', n + 1)
            /\ Positional(args', n) =>
                 IF ~SlotGoneBefore(args', n)
                 THEN /\ grep_args' = Append(grep_args, t)
                      /\ UNCHANGED << extension_globs, include_globs >>
                 ELSE /\ grep_args' = grep_args
                      /\ IF StartsWith(t, <<".">>) /\ "/" \notin Range(t)
                         THEN /\ extension_globs' = Append(extension_globs, t)
                              /\ include_globs' = include_globs
                         ELSE /\ include_globs' = Append(include_globs, t)
                              /\ extension_globs' = extension_globs
    ]_vars

\* -e takes the slot, so the positional tokens after its argument are globs
C4_Witness ==
    /\ pc = "parsed"
    /\ args = << T_e, T_pat, T_dir >>
    /\ grep_args = << <<"-","E">>, T_e, T_pat >>
    /\ include_globs = << T_dir >>

\* a revision flag that carries its value R: '-rR' or '--rev=R'
AttachedRevision(t) ==
    \/ StartsWith(t, T_r) /\ Len(t) > 2
    \/ StartsWith(t, <<"-","-","r","e","v","=">>)

\* the value R of an attached revision flag
RevisionValue(t) ==
    IF StartsWith(t, T_r) THEN SubSeq(t, 3, Len(t)) ELSE SubSeq(t, 7, Len(t))

\* C5 as stated: every form of the revision flag appends its value to
\* revisions and adds nothing to grep_args: '-rR' and '--rev=R' at once, '-r'
\* and '--rev' with the token that follows.
C5_RevisionForms ==
    [][TokenStep =>
        /\ next_arg_processor = NoProcessor /\ AttachedRevision(Taken) =>
             /\ revisions' = Append(revisions, RevisionValue(Taken))
             /\ grep_args' = grep_args
        /\ next_arg_processor = NoProcessor /\ BareRevision(Taken) =>
             /\ next_arg_processor' = RevisionsAppend
             /\ revisions' = revisions
             /\ grep_args' = grep_args
        /\ next_arg_processor = RevisionsAppend =>
             /\ revisions' = Append(revisions, Taken)
             /\ grep_args' = grep_args
    ]_vars

\* a glob without its trailing '/' characters
Stem(g) ==
    LET cut == CHOOSE n \in 0..Len(g) :
                  /\ n = 0 \/ g[n] # "/"
                  /\ \A k \in (n + 1)..Len(g) : g[k] = "/"
    IN  SubSeq(g, 1, cut)

RECURSIVE Listed(_)
\* e1,e2,...,ek
Listed(exts) ==
    IF Len(exts) = 1 THEN exts[1]
    ELSE Listed(SubSeq(exts, 1, Len(exts) - 1)) \o <<",">> \o exts[Len(exts)]

C6_WitnessNoGlob ==
    /\ pc = "parsed"
    /\ args = << T_pat, T_dot_h, T_dot_c >>
    /\ include_globs = << <<"*","*","{",".","h",",",".","c","}">> >>

\* C10: the constructor never raises, and in every state of the loop it can
\* take any further token and can return, also while a continuation is
\* pending.
C10_Total ==
    /\ pc # "raised"
    /\ pc = "parse" =>
         /\ ENABLED Finalize
         /\ Len(args) < MaxArgs => \A t \in Tokens : ENABLED ProcessArg(t)

\* the empty string, '-' and a vector that ends on a pending '-X'
C10_Witness ==
    /\ pc = "parsed"
    /\ args = << T_empty, T_dash, T_X >>
    /\ next_arg_processor = ExcludeAppend
    /\ grep_args = << <<"-","E">>, T_empty >>
    /\ include_globs = << T_dash >>
    /\ exclude_globs = <<>>

RECURSIVE IsSubsequence(_, _)
\* a is b with some elements left out: same elements, same relative order
IsSubsequence(a, b) ==
    IF a = <<>> THEN TRUE
    ELSE IF b = <<>> THEN FALSE
    ELSE IF Head(a) = Head(b) THEN IsSubsequence(Tail(a), Tail(b))
    ELSE IsSubsequence(a, Tail(b))

RECURSIVE RevisionValuesFrom(_, _)
\* the values of the revision flags of v from position k on, in the order the
\* flags occur: R for '-rR' and '--rev=R', the next token for '-r' and '--rev'
RevisionValuesFrom(v, k) ==
    IF k > Len(v) THEN <<>>
    ELSE IF Classified(v, k) /\ AttachedRevision(v[k])
    THEN << RevisionValue(v[k]) >> \o RevisionValuesFrom(v, k + 1)
    ELSE IF Classified(v, k) /\ BareRevision(v[k]) /\ k < Len(v)
    THEN << v[k + 1] >> \o RevisionValuesFrom(v, k + 1)
    ELSE RevisionValuesFrom(v, k + 1)

\* grep_args as the loop left it, without the '-E' the constructor inserts
GrepArgsOfLoop ==
    IF pc = "parsed" /\ use_default_matcher THEN Tail(grep_args) ELSE grep_args

PendingDestination ==
    IF next_arg_processor = ExcludeAppend THEN 4
    ELSE IF next_arg_processor = RevisionsAppend THEN 5
    ELSE 1

\* the continuation a token sets when none is pending
Armed(t) ==
    IF t = T_X THEN ExcludeAppend
    ELSE IF BareRevision(t) THEN RevisionsAppend
    ELSE IF AwaitsArgument(t) THEN GrepArgsAppend
    ELSE NoProcessor

\* C15: one-shot continuation. A token met with no continuation pending sets
\* one exactly when it is '-X', a bare '-r' or '--rev', or a short-flag cluster
\* ending in an argument-taking flag; the next token, whatever its form, is
\* appended verbatim to that continuation's destination and changes nothing
\* else, and the continuation is cleared: it is never pending for two tokens.
C15_OneShotContinuation ==
    [][TokenStep =>
        IF next_arg_processor = NoProcessor
        THEN next_arg_processor' = Armed(Taken)
        ELSE /\ next_arg_processor' = NoProcessor
             /\ Lists'[PendingDestination] = Append(Lists[PendingDestination], Taken)
             /\ \A j \in 1..5 : j # PendingDestination => Lists'[j] = Lists[j]
             /\ UNCHANGED << pc, explain, help, show, version, editor,
                             grep_color_arg, use_default_matcher,
                             awaiting_implicit_pattern_arg >>
    ]_vars

\* '--vim' after '-X' is an exclude glob and selects no editor, and the token
\* after it is classified by its own form again
C15_Witness ==
    /\ args = << T_X, T_vim, T_explain >>
    /\ exclude_globs = << T_vim >>
    /\ editor = None
    /\ explain
    /\ next_arg_processor = NoProcessor

\* C16: embedded versus split flag argument. In a single-dash cluster the scan
\* stops at the first argument-taking flag character; the continuation that
\* appends the next token to grep_args is set if and only if that character is
\* the last one of the token; the characters after it are its embedded
\* argument and change neither the version switch, nor the mode-selected
\* state, nor the awaiting-pattern state.
C16_EmbeddedOrSplit ==
    [][TokenStep /\ next_arg_processor = NoProcessor /\ ShortCluster(Taken) =>
        LET t == Taken
            flags == { t[k] : k \in { j \in 2..Len(t) : FlagAt(t, j) } }
        IN  /\ next_arg_processor' = GrepArgsAppend
                <=> (FirstArgFlag(t) # 0 /\ FirstArgFlag(t) = Len(t))
            /\ next_arg_processor' \in { GrepArgsAppend, NoProcessor }
            /\ version' = (version \/ "V" \in flags)
            /\ use_default_matcher' =
                  (use_default_matcher /\ flags \cap {"E", "F", "G", "P"} = {})
            /\ awaiting_implicit_pattern_arg' =
                  (awaiting_implicit_pattern_arg /\ flags \cap {"e", "f"} = {})
    ]_vars

\* '-eGV' carries the pattern 'GV': no mode is selected, the version switch
\* stays off and no continuation is set
C16_Witness ==
    /\ args = << T_eGV >>
    /\ grep_args = << T_eGV >>
    /\ ~version
    /\ use_default_matcher
    /\ ~awaiting_implicit_pattern_arg
    /\ next_arg_processor = NoProcessor

\* '-e' alone takes the next token as its pattern
C16_WitnessSplit ==
    /\ args = << T_e >>
    /\ next_arg_processor = GrepArgsAppend

\* a token starting with '--' that the classifier does not recognize as its own
UnrecognizedLongFlag(t) == ForwardedFlag(t) /\ t[2] = "-"

\* C19: frame of an unrecognized long flag. Processed with no continuation
\* pending, it is appended to grep_args and nothing else changes: not the
\* awaiting-pattern state, the mode-selected state, the version switch, the
\* pending continuation or any other field.
C19_LongFlagFrame ==
    [][TokenStep /\ next_arg_processor = NoProcessor /\ UnrecognizedLongFlag(Taken) =>
        /\ grep_args' = Append(grep_args, Taken)
        /\ UNCHANGED << pc, explain, help, show, version, include_globs,
                        exclude_globs, editor, grep_color_arg, revisions,
                        extension_globs, use_default_matcher,
                        next_arg_processor, awaiting_implicit_pattern_arg >>
    ]_vars

\* after '--foo' the next token is still the implicit pattern
C19_Witness ==
    /\ args = << T_long, T_pat >>
    /\ grep_args = << T_long, T_pat >>
    /\ use_default_matcher
    /\ ~version
    /\ ~awaiting_implicit_pattern_arg

\* ========================================== the claims: glob_to_grep_pattern

\* the call has ended
GlobEnded == gpc \in {"returned", "raised"}

\* the brace depth after the first n pieces: '{' tokens minus '}' tokens
DepthAfter(n) ==
    Cardinality({ k \in 1..n : pieces[k] = <<"{">> })
    - Cardinality({ k \in 1..n : pieces[k] = <<"}">> })

\* the '}' tokens met at depth zero
ClosesAtZero ==
    { k \in DOMAIN pieces : pieces[k] = <<"}">> /\ DepthAfter(k - 1) = 0 }

\* the first of them
FirstCloseAtZero ==
    CHOOSE k \in ClosesAtZero : \A j \in ClosesAtZero : k <= j

\* C7: the call returns exactly when no '}' token of the normalized glob is
\* met at depth zero and the depth is zero after the last token; it raises
\* 'unexpected "}"' at the first '}' met at depth zero, otherwise 'unclosed
\* "}"' after the last token when the depth is positive; the error carries
\* the glob as it was passed.
C7_BraceBalance ==
    /\ gpc = "returned" =>
         ClosesAtZero = {} /\ DepthAfter(Len(pieces)) = 0
    /\ gpc = "raised" =>
         /\ err.glob = glob
         /\ IF ClosesAtZero # {}
            THEN err.reason = "unexpected" /\ i + 1 = FirstCloseAtZero
            ELSE /\ err.reason = "unclosed"
                 /\ i = Len(pieces)
                 /\ DepthAfter(Len(pieces)) > 0

\* a '}' with no group open, behind a deleted './': the error names './}'
C7_Witness ==
    /\ gpc = "raised"
    /\ glob = <<".", "/", "}">>
    /\ glob2 = <<"}">>
    /\ err = [reason |-> "unexpected", glob |-> <<".", "/", "}">>]

\* a group left open
C7_WitnessUnclosed ==
    /\ gpc = "raised"
    /\ glob = <<"a", "{", "a">>
    /\ err = [reason |-> "unclosed", glob |-> <<"a", "{", "a">>]

\* g has a bracket expression: '[', one or more characters other than ']', ']'
HasBracketExpression(g) ==
    \E p \in DOMAIN g : \E q \in DOMAIN g :
        /\ g[p] = "["
        /\ g[q] = "]"
        /\ q >= p + 2
        /\ \A k \in (p + 1)..(q - 1) : g[k] # "]"

\* g has no meta-character
NoMeta(g) ==
    /\ Range(g) \cap {"*", "?", ",", "{", "}"} = {}
    /\ ~HasBracketExpression(g)

\* position p of g is a path segment equal to '.'
DotSegmentAt(g, p) ==
    /\ p \in DOMAIN g
    /\ g[p] = "."
    /\ (p = 1 \/ g[p - 1] = "/")
    /\ (p = Len(g) \/ g[p + 1] = "/")

\* '^' + escaped(g) + '(/|$)'
AnchoredLiteral(g) == <<"^">> \o Escape(g) \o <<"(", "/", "|", "$", ")">>

\* C8 as stated: for a glob with no meta-character and no leading '.' segment
\* the call returns '^' + escaped(glob) + '(/|$)'.
C8_LiteralNoLeadingDot ==
    GlobEnded /\ NoMeta(glob) /\ ~DotSegmentAt(glob, 1) =>
        gpc = "returned" /\ ret = AnchoredLiteral(glob)

\* C8 as amended: for a non-empty glob with no meta-character and no path
\* segment equal to '.' at all (leading, inner or trailing) the call returns
\* '^' + escaped(glob) + '(/|$)'.
C8_LiteralGlob ==
    /\ GlobEnded
    /\ NoMeta(glob)
    /\ glob # <<>>
    /\ \A p \in DOMAIN glob : ~DotSegmentAt(glob, p)
    => gpc = "returned" /\ ret = AnchoredLiteral(glob)

\* a literal glob with a '/' and a '.' that is no segment of its own
C8_Witness ==
    /\ gpc = "returned"
    /\ glob = <<"a", "/", ".", "a">>
    /\ glob2 = glob
    /\ ret = <<"^", "a", "\\", "/", "\\", ".", "a", "(", "/", "|", "$", ")">>

\* the positions of g that normalization deletes: each '.' segment and the
\* '/' that follows it
Deleted(g) ==
    { p \in DOMAIN g : DotSegmentAt(g, p) \/ (g[p] = "/" /\ DotSegmentAt(g, p - 1)) }

RECURSIVE KeptFrom(_, _)
\* the characters of g from position p on that normalization keeps
KeptFrom(g, p) ==
    IF p > Len(g) THEN <<>>
    ELSE (IF p \in Deleted(g) THEN <<>> ELSE << g[p] >>) \o KeptFrom(g, p + 1)

\* g is made of '.' segments only: '.', './', './.', ...
OnlyDotSegments(g) ==
    \A p \in DOMAIN g : g[p] = (IF p % 2 = 1 THEN "." ELSE "/")

\* C9: the normalized glob is the glob without its '.' segments (each deleted
\* with the '/' after it) and has no '.' segment left; the call returns the
\* empty string exactly when the normalized glob is empty, as for '' and for
\* every glob made of '.' segments only; any other result starts with '^' and
\* ends with '(/|$)'.
C9_NormalizeAndAnchor ==
    /\ gpc # "call" =>
         /\ glob2 = KeptFrom(glob, 1)
         /\ \A p \in DOMAIN glob2 : ~DotSegmentAt(glob2, p)
    /\ gpc = "returned" =>
         /\ (ret = <<>>) = (glob2 = <<>>)
         /\ ret # <<>> =>
              /\ Len(ret) >= 6
              /\ ret[1] = "^"
              /\ SubSeq(ret, Len(ret) - 4, Len(ret)) = <<"(", "/", "|", "$", ")">>
    /\ GlobEnded /\ OnlyDotSegments(glob) => gpc = "returned" /\ ret = <<>>

\* an inner and a trailing '.' segment are deleted, the rest is anchored
C9_Witness ==
    /\ gpc = "returned"
    /\ glob = <<"a", "/", ".", "/">>
    /\ glob2 = <<"a", "/">>
    /\ ret = <<"^", "a", "\\", "/", "(", "/", "|", "$", ")">>

\* a glob made of '.' segments only compiles to the empty pattern
C9_WitnessEmpty ==
    /\ gpc = "returned"
    /\ glob = <<".", "/", ".">>
    /\ glob2 = <<>>
    /\ ret = <<>>

\* the number of fragments of res equal to f
Emitted(res, f) == Cardinality({ k \in DOMAIN res : res[k] = f })

\* the parentheses emitted for braces, in the first n fragments of result,
\* are never closed more often than opened
NeverOverClosed ==
    \A n \in 0..Len(result) :
        Emitted(SubSeq(result, 1, n), <<")">>) <= Emitted(SubSeq(result, 1, n), <<"(">>)

\* C17: brace depth invariant. At every step of the token walk the brace depth
\* is >= 0 and equals the number of '(' emitted for '{' minus the number of ')'
\* emitted for '}'; a ',' token emits '|' exactly when the depth is > 0 and a
\* literal ',' exactly when it is 0; on every successful return the
\* parentheses emitted for braces are balanced and properly nested.
C17_BraceDepth ==
    /\ [](gpc \in {"walk", "returned", "raised"} =>
            /\ brace_depth >= 0
            /\ brace_depth = Emitted(result, <<"(">>) - Emitted(result, <<")">>)
            /\ NeverOverClosed)
    /\ [](gpc = "returned" => Emitted(result, <<"(">>) = Emitted(result, <<")">>))
    /\ [][AtSeparator /\ piece = <<",">> =>
            /\ brace_depth' = brace_depth
            /\ result' = Append(result, IF brace_depth > 0 THEN <<"|">> ELSE <<",">>)
       ]_vars

\* a ',' outside and a ',' inside a brace group of the same glob
C17_Witness ==
    /\ gpc = "returned"
    /\ glob = << ",", "{", ",", "}" >>
    /\ ret = << "^", ",", "(", "|", ")", "(", "/", "|", "$", ")" >>

\* ======================================================= the claims: __main__

\* the fields of the record ArgParser returns
Record ==
    << explain, help, show, version, include_globs, exclude_globs, grep_args,
       editor, grep_color_arg, revisions >>

\* C11: the parsed-arguments record is read-only after construction: once
\* ArgParser has returned, no later step of the program (explain, version,
\* help, pipeline assembly, editor handling) changes any of its fields, in
\* particular grep_args.
C11_ReadOnlyRecord == [][pc = "parsed" => Record' = Record]_vars

\* the explain mode has written its output and exited
Explained == dpc = "exited" /\ explain

\* the name a line of the explain output starts with: the text before ':'
LineName(line) ==
    SubSeq(line, 1, (CHOOSE k \in DOMAIN line :
                        line[k] = ":" /\ \A j \in 1..(k - 1) : line[j] # ":") - 1)

\* the names of the lines of the explain output, in the order printed
NamesPrinted == [k \in 1..Len(stdout) |-> LineName(stdout[k])]

\* the ten field names in ascending order
NamesInOrder ==
    << <<"e","d","i","t","o","r">>,
       <<"e","x","c","l","u","d","e","_","g","l","o","b","s">>,
       <<"e","x","p","l","a","i","n">>,
       <<"g","r","e","p","_","a","r","g","s">>,
       <<"g","r","e","p","_","c","o","l","o","r","_","a","r","g">>,
       <<"h","e","l","p">>,
       <<"i","n","c","l","u","d","e","_","g","l","o","b","s">>,
       <<"r","e","v","i","s","i","o","n","s">>,
       <<"s","h","o","w">>,
       <<"v","e","r","s","i","o","n">> >>

\* the field holds a value: a switch that is on, a list with an element, an
\* editor that was selected, a color argument
NonEmpty(f) ==
    \/ f.kind = "bool" /\ f.flag
    \/ f.kind = "list" /\ f.list # <<>>
    \/ f.kind = "str" /\ f.str \notin { None, <<>> }

\* the field holds the value the constructor gave it at lines 198-208
HoldsDefault(f) ==
    \/ f.kind = "bool" /\ ~f.flag
    \/ f.kind = "list" /\ f.list = <<>>
    \/ f.kind = "str" /\ f.str \in { None, default_color_arg }

\* the lines are sorted by field name, one per name, each 'name: value'
WellFormedLines ==
    /\ IsSubsequence(NamesPrinted, NamesInOrder)
    /\ \A k \in 1..Len(stdout) :
          \E f \in Fields : f.name = NamesPrinted[k] /\ stdout[k] = ReprLine(f)

\* C12 as stated: the explain output has one 'name: value' line for exactly
\* the fields whose value is non-empty and non-default, sorted by field name;
\* a field holding its default value (the default color argument included)
\* or an empty value produces no line.
C12_NonDefaultFieldsOnly ==
    Explained =>
        /\ WellFormedLines
        /\ \A f \in Fields :
              (\E k \in 1..Len(stdout) : NamesPrinted[k] = f.name)
              <=> (NonEmpty(f) /\ ~HoldsDefault(f))

\* C12 as amended: the explain output has one 'name: value' line for exactly
\* the fields whose value is non-empty, sorted by field name. The color
\* argument is never empty, so it has a line in every output, its default
\* '--color' included; a switch that is off, an empty list and an unset
\* editor produce no line.
C12_NonEmptyFields ==
    Explained =>
        /\ WellFormedLines
        /\ \A f \in Fields :
              (\E k \in 1..Len(stdout) : NamesPrinted[k] = f.name) <=> NonEmpty(f)
        /\ \E k \in 1..Len(stdout) : NamesPrinted[k] = NamesInOrder[5]

\* 'p --explain' prints the two lines of the doctest of lines 124-126 after
\* the line of the explain switch
C12_Witness ==
    /\ Explained
    /\ args = << T_pat, T_explain >>
    /\ stdout =
         << <<"e","x","p","l","a","i","n",":"," ","True">>,
            <<"g","r","e","p","_","a","r","g","s",":"," ",
              "[","'","-","E","'",","," ","'","p","'","]">>,
            <<"g","r","e","p","_","c","o","l","o","r","_","a","r","g",":"," ",
              "'","-","-","c","o","l","o","r","'">> >>

\* the vector holds, forwarded to grep_args as a matcher flag, a -V or a -h
VersionOrHelpFlagIn(v) ==
    \E k \in DOMAIN v :
        /\ Classified(v, k)
        /\ ShortCluster(v[k])
        /\ \E j \in 2..Len(v[k]) : FlagAt(v[k], j) /\ v[k][j] \in {"V", "h"}

\* the driver is assembling the pipeline, or has assembled, shown or run it
PipelineTouched ==
    \/ dpc \in {"lister", "grep", "editor", "show"}
    \/ cmd # <<>>
    \/ executed # <<>>

\* C14: whenever the argument vector contains a -V or a -h flag (forwarded
\* into grep_args as a matcher flag), the driver runs the version handling or
\* the help handling and exits before it assembles or executes any pipeline
\* command; explain handling precedes version handling, which precedes help
\* handling.
C14_VersionOrHelpFirst ==
    /\ pc = "parsed" /\ VersionOrHelpFlagIn(args) => ~PipelineTouched
    /\ dpc = "version" => ~explain
    /\ dpc = "help" => ~explain /\ ~version

RECURSIVE BraceDepths(_, _)
\* the brace depth after each character of g, starting from depth d
BraceDepths(g, d) ==
    IF g = <<>> THEN << d >>
    ELSE << d >> \o BraceDepths(Tail(g), IF Head(g) = "{" THEN d + 1
                                        ELSE IF Head(g) = "}" THEN d - 1
                                        ELSE d)

\* the braces of g (a glob without bracket expressions) are unbalanced: a '}'
\* closes no group, or a group stays open
Unbalanced(g) ==
    LET ds == BraceDepths(g, 0)
    IN  (\E k \in DOMAIN ds : ds[k] < 0) \/ ds[Len(ds)] # 0

\* the globs the driver works with after the constructor has returned
DriverGlobs == Range(include_globs) \cup Range(exclude_globs)

\* the run got past the explain, version and help handling
ReachedAssembly ==
    /\ pc = "parsed"
    /\ dpc \in {"lister", "grep", "editor", "show", "exited"}
    /\ ~explain /\ ~version
    /\ ~(help \/ args = <<>> \/ args = << T_h >>)

\* the run ended with a non-zero status and one message, before any pipeline
\* command was assembled, printed or run
RefusedBeforePipeline ==
    dpc # "lister" =>
        /\ dpc = "exited"
        /\ status = "1"
        /\ Len(stderr) = 1
        /\ cmd = <<>> /\ stdout = <<>> /\ executed = <<>>

\* the message names the program and ends with a malformed glob
NamesMalformedGlob(line) ==
    /\ line[1] = prog
    /\ \E g \in DriverGlobs :
          /\ Unbalanced(g)
          /\ Len(line) >= Len(g)
          /\ SubSeq(line, Len(line) - Len(g) + 1, Len(line)) = g

\* C18 as stated: whenever an include or exclude glob with unbalanced braces
\* is part of a run that reaches pipeline assembly, the driver reports the
\* error and terminates with a non-zero status before any pipeline command is
\* printed or executed, for both program names.
C18_MalformedGlobRefused ==
    ReachedAssembly /\ (\E g \in DriverGlobs : Unbalanced(g)) =>
        /\ RefusedBeforePipeline
        /\ dpc = "exited" => NamesMalformedGlob(stderr[1])

\* C18 as amended: under ggit, whenever an include or exclude glob with
\* unbalanced braces is part of a run that reaches pipeline assembly, the
\* driver terminates with a non-zero status and a message before any pipeline
\* command is printed or executed; the message reports the glob unless
\* revisions were given, which ggit refuses first. Under hgg the globs are
\* handed to hg as they are and never compiled.
C18_MalformedGlobRefusedByGgit ==
    /\ ReachedAssembly /\ prog = "ggit" /\ (\E g \in DriverGlobs : Unbalanced(g)) =>
          /\ RefusedBeforePipeline
          /\ dpc = "exited" /\ revisions = <<>> => NamesMalformedGlob(stderr[1])
    /\ ReachedAssembly /\ prog = "hgg" =>
          /\ stderr = <<>>
          /\ status # "1"
          /\ dpc \in {"grep", "editor", "show"} =>
                cmd[1] \in { "HGPLAIN=1 hg files --print0 ",
                             "HGPLAIN=1 hg status --print0 --no-status -X 'set:symlink()' " }

\* 'ggit p s/ {': the second include glob is refused
C18_Witness ==
    /\ prog = "ggit"
    /\ args = << T_pat, T_dir, T_unclosed >>
    /\ dpc = "exited"
    /\ status = "1"
    /\ stderr = << <<"ggit", ": invalid glob pattern (", "unclosed", " \"}\"): ", "{">> >>
    /\ executed = <<>>

====
